---- MODULE Spec2Model ----
(***************************************************************************)
(* Model of the symmetric-cipher tools of the repository:                   *)
(*   src/ЛР3.py  Vernam (xor_files), key generation, RC4                    *)
(*   src/ЛР4.py  TEA block cipher, CBC mode, PKCS#7 padding                 *)
(* Bytes are naturals 0..255, byte strings are sequences of bytes.          *)
(* A Python int that does not fit TLC's integers is kept as a pair          *)
(* <<hi, lo>> standing for hi * 2^16 + lo with lo in 0..65535 (hi may be    *)
(* negative or exceed 16 bits while a value is not masked yet).             *)
(***************************************************************************)
EXTENDS Integers, Sequences, FiniteSets, TLC

VARIABLES
    fs,      \* the file system: path -> byte string, or Absent
    dirs,    \* the directories that exist
    pc,      \* where the running command stands ("idle" between commands)
    cmd,     \* the running (or last) command and its arguments
    err,     \* the exception the last command raised, or NoError
    ncmd,    \* number of commands started
    snap,    \* fs and dirs as they were when the command started
    lv,      \* the locals of the running function
    hist,    \* what the finished commands read and wrote
    tea,     \* one tea_encrypt_block / tea_decrypt_block call, round by round
    pad,     \* one pkcs7_pad / pkcs7_unpad call
    gen      \* one rc4_keystream generator, one loop pass per step

vars == <<fs, dirs, pc, cmd, err, ncmd, snap, lv, hist, tea, pad, gen>>
fileVars == <<fs, dirs, pc, cmd, err, ncmd, snap, lv, hist>>

----------------------------------------------------------------------------
(* Integer arithmetic of Python on <<hi, lo>> pairs                         *)

Limb == 256 * 256

\* the table of a bitwise operation on two 4-bit digits
RECURSIVE BitXor(_, _, _)
BitXor(a, b, n) ==
    IF n = 0 THEN 0
    ELSE ((a + b) % 2) + 2 * BitXor(a \div 2, b \div 2, n - 1)

RECURSIVE BitAnd(_, _, _)
BitAnd(a, b, n) ==
    IF n = 0 THEN 0
    ELSE ((a % 2) * (b % 2)) + 2 * BitAnd(a \div 2, b \div 2, n - 1)

XorTab == [a \in 0..15 |-> [b \in 0..15 |-> BitXor(a, b, 4)]]
AndTab == [a \in 0..15 |-> [b \in 0..15 |-> BitAnd(a, b, 4)]]

\* x ^ y for naturals x, y
RECURSIVE XorN(_, _)
XorN(x, y) ==
    IF x = 0 /\ y = 0 THEN 0
    ELSE XorTab[x % 16][y % 16] + 16 * XorN(x \div 16, y \div 16)

\* x & m for an integer x (two's complement when negative) and a natural m
RECURSIVE AndN(_, _)
AndN(x, m) ==
    IF m = 0 THEN 0
    ELSE AndTab[x % 16][m % 16] + 16 * AndN(x \div 16, m \div 16)

\* a + b
Add(a, b) ==
    LET l == a[2] + b[2] IN <<a[1] + b[1] + (l \div Limb), l % Limb>>

\* a - b (the result may be negative: hi < 0)
Sub(a, b) ==
    LET l == a[2] - b[2] IN <<a[1] - b[1] + (l \div Limb), l % Limb>>

\* a * n for a small natural n
MulSmall(a, n) ==
    LET l == a[2] * n IN <<a[1] * n + (l \div Limb), l % Limb>>

\* a << 4
Shl4(a) == MulSmall(a, 16)

\* a >> 5, a >= 0
Shr5(a) == <<a[1] \div 32, (a[1] % 32) * (Limb \div 32) + (a[2] \div 32)>>

\* a ^ b
Xor(a, b) == <<XorN(a[1], b[1]), XorN(a[2], b[2])>>

\* a & m, m >= 0
And(a, m) == <<AndN(a[1], m[1]), AndN(a[2], m[2])>>

\* bytes(x ^ y for x, y in zip(a, b))
xor_bytes(a, b) ==
    LET n == IF Len(a) < Len(b) THEN Len(a) ELSE Len(b)
    IN  [i \in 1..n |-> XorN(a[i], b[i])]

----------------------------------------------------------------------------
(* TEA block cipher (src/ЛР4.py)                                            *)

DELTA == <<40503, 31161>>      \* 0x9E3779B9
MASK32 == <<65535, 65535>>     \* 0xFFFFFFFF
ROUNDS == 32
BLOCK_SIZE == 8

\* struct.unpack(">I", b[i+1 .. i+4]): one big-endian 32-bit word
UnpackWord(b, i) == <<b[i + 1] * 256 + b[i + 2], b[i + 3] * 256 + b[i + 4]>>

\* struct.pack(">I", w) for 0 <= w < 2^32
PackWord(w) == <<w[1] \div 256, w[1] % 256, w[2] \div 256, w[2] % 256>>

\* the mixing term ((v << 4) + ka) ^ (v + s) ^ ((v >> 5) + kb)
Mix(v, s, ka, kb) ==
    Xor(Xor(Add(Shl4(v), ka), Add(v, s)), Add(Shr5(v), kb))

\* one pass of the body of tea_encrypt_block's loop on [v0, v1, s], key k
Mut_EncRound(t, k) ==
    LET s  == And(Add(t.s, DELTA), MASK32)
        v0 == And(Add(t.v0, Mix(t.v1, s, k[1], k[2])), MASK32)
        v1 == And(Add(t.v1, Mix(t.v0, s, k[3], k[4])), MASK32)
    IN  [v0 |-> v0, v1 |-> v1, s |-> s]

EncRound(t, k) ==
    LET s  == And(Add(t.s, DELTA), MASK32)
        v0 == And(Add(t.v0, Mix(t.v1, s, k[1], k[2])), MASK32)
        v1 == And(Add(t.v1, Mix(v0, s, k[3], k[4])), MASK32)
    IN  [v0 |-> v0, v1 |-> v1, s |-> s]

\* one pass of the body of tea_decrypt_block's loop
DecRound(t, k) ==
    LET v1 == And(Sub(t.v1, Mix(t.v0, t.s, k[3], k[4])), MASK32)
        v0 == And(Sub(t.v0, Mix(v1, t.s, k[1], k[2])), MASK32)
        s  == And(Sub(t.s, DELTA), MASK32)
    IN  [v0 |-> v0, v1 |-> v1, s |-> s]

\* struct.unpack(">4I", key16)
UnpackKey(key16) == [i \in 1..4 |-> UnpackWord(key16, 4 * (i - 1))]

\* the locals after the unpacking and the initialisation of s
EncEntry(block8) ==
    [v0 |-> UnpackWord(block8, 0), v1 |-> UnpackWord(block8, 4), s |-> <<0, 0>>]

DecEntry(block8) ==
    [v0 |-> UnpackWord(block8, 0), v1 |-> UnpackWord(block8, 4),
     s |-> And(MulSmall(DELTA, ROUNDS), MASK32)]

\* struct.pack(">2I", v0, v1)
PackBlock(t) == PackWord(t.v0) \o PackWord(t.v1)

\* n passes of the loop (the test on u has TLC evaluate a pass before it
\* starts the next one, which keeps its evaluation stack shallow)
RECURSIVE EncLoop(_, _, _)
EncLoop(t, k, n) ==
    IF n = 0 THEN t
    ELSE LET u == EncRound(t, k)
         IN  IF u.s = u.s THEN EncLoop(u, k, n - 1) ELSE u

RECURSIVE DecLoop(_, _, _)
DecLoop(t, k, n) ==
    IF n = 0 THEN t
    ELSE LET u == DecRound(t, k)
         IN  IF u.s = u.s THEN DecLoop(u, k, n - 1) ELSE u

tea_encrypt_block(block8, key16) ==
    PackBlock(EncLoop(EncEntry(block8), UnpackKey(key16), ROUNDS))

tea_decrypt_block(block8, key16) ==
    PackBlock(DecLoop(DecEntry(block8), UnpackKey(key16), ROUNDS))

----------------------------------------------------------------------------
(* PKCS#7 padding (src/ЛР4.py)                                              *)

NoError == "none"
E_UNPAD_LENGTH == "unpad: bad data length"          \* ЛР4.py line 21
E_INVALID_PADDING == "unpad: invalid PKCS#7 padding" \* ЛР4.py lines 24, 26

\* what a call gives: a value returned or an exception raised
Return(v) == [ok |-> TRUE, val |-> v, err |-> NoError]
Raise(e) == [ok |-> FALSE, val |-> <<>>, err |-> e]

\* bytes([b]) * n
Repeat(b, n) == [i \in 1..n |-> b]

\* data[-n:] and data[:-n] for 1 <= n <= len(data)
LastN(data, n) == SubSeq(data, Len(data) - n + 1, Len(data))
DropLastN(data, n) == SubSeq(data, 1, Len(data) - n)

Mut_pkcs7_pad(data, block_size) ==
    LET pad_len == (block_size - (Len(data) % block_size)) % block_size
    IN  data \o Repeat(pad_len, pad_len)

pkcs7_pad(data, block_size) ==
    LET pad_len == block_size - (Len(data) % block_size)
    IN  data \o Repeat(pad_len, pad_len)

Mut_pkcs7_unpad(data, block_size) ==
    IF data = <<>> \/ Len(data) % block_size # 0
    THEN Raise(E_UNPAD_LENGTH)
    ELSE LET pad_len == data[Len(data)]
         IN  IF pad_len < 1 \/ pad_len > block_size
             THEN Raise(E_INVALID_PADDING)
             ELSE Return(DropLastN(data, pad_len))

pkcs7_unpad(data, block_size) ==
    IF data = <<>> \/ Len(data) % block_size # 0
    THEN Raise(E_UNPAD_LENGTH)
    ELSE LET pad_len == data[Len(data)]
         IN  IF pad_len < 1 \/ pad_len > block_size
             THEN Raise(E_INVALID_PADDING)
             ELSE IF LastN(data, pad_len) # Repeat(pad_len, pad_len)
             THEN Raise(E_INVALID_PADDING)
             ELSE Return(DropLastN(data, pad_len))

----------------------------------------------------------------------------
(* Files, directories, commands                                             *)

\* byte strings for the inputs of the model
ZeroBytes(n) == [i \in 1..n |-> 0]
OneBytes(n) == [i \in 1..n |-> 255]
SampleBytes(k, n) == [i \in 1..n |-> (k * (37 * i + 101)) % 256]

\* a directory is <<name, number>>, a path is <<directory, file name>>
Root == <<"cwd", 0>>
InPath == <<Root, "in.bin">>
KeyPath == <<Root, "key.bin">>
NewKeyPath == <<<<"keys", 0>>, "new.bin">>
OutPath(k) == <<<<"out", k>>, "out.bin">>
Paths == {InPath, KeyPath, NewKeyPath, OutPath(1), OutPath(2)}

NoTea == [pc |-> "off"]
NoPad == [pc |-> "off"]
NoGen == [pc |-> "off"]

Absent == [exists |-> FALSE, bytes |-> <<>>]
File(b) == [exists |-> TRUE, bytes |-> b]

\* Path(path).parent.mkdir(parents=True, exist_ok=True)
ensure_parent(path) == dirs \cup {path[1]}

\* f.read(n) at offset pos of the bytes b
ReadAt(b, pos, n) ==
    SubSeq(b, pos + 1, IF pos + n < Len(b) THEN pos + n ELSE Len(b))

E_FILE_NOT_FOUND == "FileNotFoundError"
E_KEY_TOO_SHORT == "vernam: key shorter than input"   \* ЛР3.py line 20
E_EMPTY_KEY == "rc4: empty key"                       \* ЛР3.py line 98
E_SIZE == "gen-key: size must be > 0"                 \* ЛР3.py line 145
E_NEGATIVE == "urandom: negative argument"            \* os.urandom(size), size < 0
E_BAD_LENGTH == "decrypt: not TEA-CBC, bad length"    \* ЛР4.py line 114

NoCmd ==
    [name |-> "none", inp |-> InPath, out |-> InPath, keyfile |-> InPath,
     key |-> <<>>, chunk |-> 0, size |-> 0, seed |-> 0, pw |-> "", via |-> ""]

NoLocals ==
    [fin |-> 0, fkey |-> 0, data |-> <<>>, ks |-> [started |-> FALSE],
     key16 |-> <<>>, iv |-> <<>>, prev |-> <<>>, blocks |-> <<>>,
     padded |-> <<>>, ciphertext |-> <<>>, plain |-> <<>>, i |-> 0]

FilesOff ==
    /\ fs = <<>>
    /\ dirs = {}
    /\ pc = "off"
    /\ cmd = NoCmd
    /\ err = NoError
    /\ ncmd = 0
    /\ snap = <<>>
    /\ lv = NoLocals
    /\ hist = <<>>

\* a command starts: the first one reads InPath and writes OutPath(1), a
\* second one reads what the first one wrote and writes OutPath(2)
Launch(c, at) ==
    /\ pc = "idle"
    /\ cmd' = c
    /\ pc' = at
    /\ ncmd' = ncmd + 1
    /\ err' = NoError
    /\ snap' = [fs |-> fs, dirs |-> dirs]
    /\ lv' = NoLocals
    /\ UNCHANGED <<fs, dirs, hist, tea, pad, gen>>

First == ncmd = 0
Again ==
    /\ ncmd = 1
    /\ err = NoError
    /\ cmd.name \in {"vernam", "rc4", "encrypt", "decrypt"}

StageIn == IF ncmd = 0 THEN InPath ELSE OutPath(1)
StageOut == OutPath(ncmd + 1)

Entry(ok, e, o) ==
    [name |-> cmd.name, key |-> cmd.key, keyfile |-> snap.fs[cmd.keyfile],
     pw |-> cmd.pw, input |-> snap.fs[cmd.inp], output |-> o, ok |-> ok,
     err |-> e]

\* the command raises e: the exception leaves the function and the process
Fail(e) ==
    /\ pc' = "idle"
    /\ err' = e
    /\ hist' = Append(hist, Entry(FALSE, e, fs[cmd.out]))

\* the command returns, the output file being o
Finish(o) ==
    /\ pc' = "idle"
    /\ err' = NoError
    /\ hist' = Append(hist, Entry(TRUE, NoError, o))

----------------------------------------------------------------------------
(* Vernam: xor_files (src/ЛР3.py)                                           *)

MaxLen == 3
MaxChunk == 2

\* main, lines 152-153 (chunk_size is a parameter of xor_files)
StartVernam ==
    /\ First \/ Again
    /\ \E n \in 1..MaxChunk :
           Launch([NoCmd EXCEPT !.name = "vernam", !.inp = StageIn, !.out = StageOut,
                                !.keyfile = KeyPath, !.chunk = n], "xor_sizes")

\* lines 17-20
Mut_XorSizes ==
    /\ pc = "xor_sizes"
    /\ IF ~fs[cmd.inp].exists \/ ~fs[cmd.keyfile].exists
       THEN Fail(E_FILE_NOT_FOUND)
       ELSE pc' = "xor_mkdir" /\ UNCHANGED <<err, hist>>
    /\ UNCHANGED <<fs, dirs, cmd, ncmd, snap, lv, tea, pad, gen>>

XorSizes ==
    /\ pc = "xor_sizes"
    /\ IF ~fs[cmd.inp].exists \/ ~fs[cmd.keyfile].exists
       THEN Fail(E_FILE_NOT_FOUND)
       ELSE IF Len(fs[cmd.keyfile].bytes) < Len(fs[cmd.inp].bytes)
       THEN Fail(E_KEY_TOO_SHORT)
       ELSE pc' = "xor_mkdir" /\ UNCHANGED <<err, hist>>
    /\ UNCHANGED <<fs, dirs, cmd, ncmd, snap, lv, tea, pad, gen>>

\* line 22
XorEnsureParent ==
    /\ pc = "xor_mkdir"
    /\ dirs' = ensure_parent(cmd.out)
    /\ pc' = "xor_open"
    /\ UNCHANGED <<fs, cmd, err, ncmd, snap, lv, hist, tea, pad, gen>>

\* line 23: the three files are opened, the output for writing
XorOpen ==
    /\ pc = "xor_open"
    /\ fs' = [fs EXCEPT ![cmd.out] = File(<<>>)]
    /\ lv' = [lv EXCEPT !.fin = 0, !.fkey = 0]
    /\ pc' = "xor_read"
    /\ UNCHANGED <<dirs, cmd, err, ncmd, snap, hist, tea, pad, gen>>

\* lines 25-27
Mut_XorRead ==
    /\ pc = "xor_read"
    /\ LET data == ReadAt(fs[cmd.inp].bytes, lv.fin, Len(fs[cmd.inp].bytes))
       IN  /\ lv' = [lv EXCEPT !.data = data, !.fin = lv.fin + Len(data)]
           /\ IF data = <<>>
              THEN Finish(fs[cmd.out])
              ELSE pc' = "xor_write" /\ UNCHANGED <<err, hist>>
    /\ UNCHANGED <<fs, dirs, cmd, ncmd, snap, tea, pad, gen>>

XorRead ==
    /\ pc = "xor_read"
    /\ LET data == ReadAt(fs[cmd.inp].bytes, lv.fin, cmd.chunk)
       IN  /\ lv' = [lv EXCEPT !.data = data, !.fin = lv.fin + Len(data)]
           /\ IF data = <<>>
              THEN Finish(fs[cmd.out])
              ELSE pc' = "xor_write" /\ UNCHANGED <<err, hist>>
    /\ UNCHANGED <<fs, dirs, cmd, ncmd, snap, tea, pad, gen>>

\* lines 28-30
Mut_XorWrite ==
    /\ pc = "xor_write"
    /\ LET key == ReadAt(fs[cmd.keyfile].bytes, 0, Len(lv.data))
           out == xor_bytes(lv.data, key)
       IN  /\ fs' = [fs EXCEPT ![cmd.out] = File(fs[cmd.out].bytes \o out)]
           /\ lv' = [lv EXCEPT !.fkey = lv.fkey + Len(key)]
    /\ pc' = "xor_read"
    /\ UNCHANGED <<dirs, cmd, err, ncmd, snap, hist, tea, pad, gen>>

XorWrite ==
    /\ pc = "xor_write"
    /\ LET key == ReadAt(fs[cmd.keyfile].bytes, lv.fkey, Len(lv.data))
           out == xor_bytes(lv.data, key)
       IN  /\ fs' = [fs EXCEPT ![cmd.out] = File(fs[cmd.out].bytes \o out)]
           /\ lv' = [lv EXCEPT !.fkey = lv.fkey + Len(key)]
    /\ pc' = "xor_read"
    /\ UNCHANGED <<dirs, cmd, err, ncmd, snap, hist, tea, pad, gen>>

----------------------------------------------------------------------------
(* RC4 (src/ЛР3.py)                                                         *)

\* str.encode("utf-8") of one code point below 0x10000
Utf8Char(c) ==
    IF c < 128 THEN <<c>>
    ELSE IF c < 2048 THEN <<192 + (c \div 64), 128 + (c % 64)>>
    ELSE <<224 + (c \div 4096), 128 + ((c \div 64) % 64), 128 + (c % 64)>>

\* key.encode("utf-8"), a string being the sequence of its code points
RECURSIVE Utf8(_)
Utf8(str) == IF str = <<>> THEN <<>> ELSE Utf8Char(Head(str)) \o Utf8(Tail(str))

\* S[i], S[j] = S[j], S[i]
Mut_Swap(S, i, j) == [S EXCEPT ![i] = S[j]]

Swap(S, i, j) == [S EXCEPT ![i] = S[j], ![j] = S[i]]

\* lines 79-80, pass i of the KSA loop
KsaStep(st, key_bytes, i) ==
    LET j == (st.j + st.S[i] + key_bytes[(i % Len(key_bytes)) + 1]) % 256
    IN  [S |-> Swap(st.S, i, j), j |-> j]

\* passes lo .. hi - 1 of the KSA loop, in order (split in two halves, and
\* with a test on u that has TLC finish the first half before the second, to
\* keep TLC's evaluation stack shallow)
RECURSIVE KsaLoop(_, _, _, _)
KsaLoop(st, key_bytes, lo, hi) ==
    IF hi - lo = 1 THEN KsaStep(st, key_bytes, lo)
    ELSE LET mid == (lo + hi) \div 2
             u == KsaLoop(st, key_bytes, lo, mid)
         IN  IF u.j = u.j THEN KsaLoop(u, key_bytes, mid, hi) ELSE u

\* lines 75-84: the generator's state when it reaches the PRGA loop
Ksa(key_bytes) ==
    LET st == KsaLoop([S |-> [x \in 0..255 |-> x], j |-> 0], key_bytes, 0, 256)
    IN  [started |-> TRUE, key |-> key_bytes, S |-> st.S, i |-> 0, j |-> 0]

\* rc4_keystream(key_bytes): a generator that has not run yet
rc4_keystream(key_bytes) ==
    [started |-> FALSE, key |-> key_bytes, S |-> <<>>, i |-> 0, j |-> 0]

\* lines 86-90, one pass of the PRGA loop: the generator after it and K
Prga(g) ==
    LET i == (g.i + 1) % 256
        j == (g.j + g.S[i]) % 256
        S == Swap(g.S, i, j)
    IN  [g |-> [g EXCEPT !.S = S, !.i = i, !.j = j], K |-> S[(S[i] + S[j]) % 256]]

\* next(ks): the first call runs the KSA
NextKs(g) == Prga(IF g.started THEN g ELSE Ksa(g.key))

\* bytes(b ^ next(ks) for b in data): the generator after it and the bytes
RECURSIVE Rc4Chunk(_, _)
Rc4Chunk(g, data) ==
    IF data = <<>> THEN [g |-> g, out |-> <<>>]
    ELSE LET n == NextKs(g)
             rest == Rc4Chunk(n.g, Tail(data))
         IN  [g |-> rest.g, out |-> <<XorN(Head(data), n.K)>> \o rest.out]

\* the RC4 keys of the model: "", "Key", and "é" (two bytes in UTF-8)
Rc4Keys == {<<>>, <<75, 101, 121>>, <<233>>}

\* main, lines 156-157 (chunk_size is a parameter of rc4_crypt_file)
StartRc4 ==
    /\ First \/ Again
    /\ \E k \in Rc4Keys, n \in 1..MaxChunk :
           Launch([NoCmd EXCEPT !.name = "rc4", !.inp = StageIn, !.out = StageOut,
                                !.key = k, !.chunk = n], "rc4_key")

\* lines 97-98
Rc4Key ==
    /\ pc = "rc4_key"
    /\ IF cmd.key = <<>>
       THEN Fail(E_EMPTY_KEY)
       ELSE pc' = "rc4_mkdir" /\ UNCHANGED <<err, hist>>
    /\ UNCHANGED <<fs, dirs, cmd, ncmd, snap, lv, tea, pad, gen>>

\* lines 100-101
Rc4EnsureParent ==
    /\ pc = "rc4_mkdir"
    /\ dirs' = ensure_parent(cmd.out)
    /\ lv' = [lv EXCEPT !.ks = rc4_keystream(Utf8(cmd.key))]
    /\ pc' = "rc4_open"
    /\ UNCHANGED <<fs, cmd, err, ncmd, snap, hist, tea, pad, gen>>

\* line 103: the input is opened first, then the output for writing
Rc4Open ==
    /\ pc = "rc4_open"
    /\ IF ~fs[cmd.inp].exists
       THEN Fail(E_FILE_NOT_FOUND) /\ UNCHANGED <<fs, lv>>
       ELSE /\ fs' = [fs EXCEPT ![cmd.out] = File(<<>>)]
            /\ lv' = [lv EXCEPT !.fin = 0]
            /\ pc' = "rc4_read"
            /\ UNCHANGED <<err, hist>>
    /\ UNCHANGED <<dirs, cmd, ncmd, snap, tea, pad, gen>>

\* lines 105-107
Rc4Read ==
    /\ pc = "rc4_read"
    /\ LET data == ReadAt(fs[cmd.inp].bytes, lv.fin, cmd.chunk)
       IN  /\ lv' = [lv EXCEPT !.data = data, !.fin = lv.fin + Len(data)]
           /\ IF data = <<>>
              THEN Finish(fs[cmd.out])
              ELSE pc' = "rc4_write" /\ UNCHANGED <<err, hist>>
    /\ UNCHANGED <<fs, dirs, cmd, ncmd, snap, tea, pad, gen>>

\* lines 108-109
Mut_Rc4Write ==
    /\ pc = "rc4_write"
    /\ LET r == Rc4Chunk(lv.ks, lv.data)
       IN  fs' = [fs EXCEPT ![cmd.out] = File(fs[cmd.out].bytes \o r.out)]
    /\ pc' = "rc4_read"
    /\ UNCHANGED <<dirs, cmd, err, ncmd, snap, lv, hist, tea, pad, gen>>

Rc4Write ==
    /\ pc = "rc4_write"
    /\ LET r == Rc4Chunk(lv.ks, lv.data)
       IN  /\ fs' = [fs EXCEPT ![cmd.out] = File(fs[cmd.out].bytes \o r.out)]
           /\ lv' = [lv EXCEPT !.ks = r.g]
    /\ pc' = "rc4_read"
    /\ UNCHANGED <<dirs, cmd, err, ncmd, snap, hist, tea, pad, gen>>

----------------------------------------------------------------------------
(* Key generation (src/ЛР3.py)                                              *)

LCG_A == 1103515245
LCG_C == 12345
LCG_M == <<32768, 0>>      \* 2**31 as <<hi, lo>>
DEFAULT_SEED == 123456789

\* p % m for the pair p >= 0 (m is a multiple of 2^16)
ModM(p) == <<p[1] % LCG_M[1], p[2]>>

\* the integer n as a pair
Pair(n) == <<n \div Limb, n % Limb>>

\* (x * a) % m for the pair x < m and the natural a, a byte of a at a time
RECURSIVE MulMod(_, _)
MulMod(x, a) ==
    IF a = 0 THEN <<0, 0>>
    ELSE ModM(Add(MulSmall(x, a % 256), MulSmall(MulMod(x, a \div 256), 256)))

\* LCG.__init__: self.x = seed % m
LcgInit(seed) == ModM(Pair(seed))

\* LCG.next_u31: self.x = (self.a * self.x + self.c) % self.m
next_u31(x) == ModM(Add(MulMod(x, LCG_A), Pair(LCG_C)))

\* bytes(gen.next_byte() for _ in range(size)), next_byte being
\* next_u31() & 0xFF
RECURSIVE LcgBytes(_, _)
LcgBytes(x, size) ==
    IF size <= 0 THEN <<>>
    ELSE LET y == next_u31(x)
         IN  <<AndN(y[2], 255)>> \o LcgBytes(y, size - 1)

\* what os.urandom may return in the model
RandBytes == {90, 195}

\* the sizes a caller asks for
Sizes == (0 - 1)..MaxLen

\* main, lines 143-149: the gen-key command
StartGenKey ==
    /\ First
    /\ \E o \in {KeyPath, NewKeyPath}, n \in Sizes, m \in {"urandom", "lcg"} :
           Launch([NoCmd EXCEPT !.name = "gen_key_" \o m, !.out = o, !.size = n,
                                !.seed = DEFAULT_SEED, !.via = "main"], "gk_main")

\* gen_key_urandom / gen_key_lcg called as functions
StartGenKeyCall ==
    /\ First
    /\ \E o \in {KeyPath, NewKeyPath}, n \in Sizes, m \in {"urandom", "lcg"} :
           Launch([NoCmd EXCEPT !.name = "gen_key_" \o m, !.out = o, !.size = n,
                                !.seed = DEFAULT_SEED, !.via = "call"], "gk_mkdir")

\* lines 144-149
GenKeyMain ==
    /\ pc = "gk_main"
    /\ IF cmd.size <= 0
       THEN Fail(E_SIZE)
       ELSE pc' = "gk_mkdir" /\ UNCHANGED <<err, hist>>
    /\ UNCHANGED <<fs, dirs, cmd, ncmd, snap, lv, tea, pad, gen>>

\* lines 36 and 62
GenKeyEnsureParent ==
    /\ pc = "gk_mkdir"
    /\ dirs' = ensure_parent(cmd.out)
    /\ pc' = "gk_open"
    /\ UNCHANGED <<fs, cmd, err, ncmd, snap, lv, hist, tea, pad, gen>>

\* lines 37 and 63-64: open(out_path, "wb")
GenKeyOpen ==
    /\ pc = "gk_open"
    /\ fs' = [fs EXCEPT ![cmd.out] = File(<<>>)]
    /\ pc' = "gk_write"
    /\ UNCHANGED <<dirs, cmd, err, ncmd, snap, lv, hist, tea, pad, gen>>

\* line 38: f.write(os.urandom(size)); os.urandom raises on a negative size
GenKeyUrandomWrite ==
    /\ pc = "gk_write"
    /\ cmd.name = "gen_key_urandom"
    /\ IF cmd.size < 0
       THEN Fail(E_NEGATIVE) /\ UNCHANGED fs
       ELSE \E b \in [1..cmd.size -> RandBytes] :
                /\ fs' = [fs EXCEPT ![cmd.out] = File(b)]
                /\ Finish(File(b))
    /\ UNCHANGED <<dirs, cmd, ncmd, snap, lv, tea, pad, gen>>

\* line 65
GenKeyLcgWrite ==
    /\ pc = "gk_write"
    /\ cmd.name = "gen_key_lcg"
    /\ fs' = [fs EXCEPT ![cmd.out] = File(LcgBytes(LcgInit(cmd.seed), cmd.size))]
    /\ Finish(File(LcgBytes(LcgInit(cmd.seed), cmd.size)))
    /\ UNCHANGED <<dirs, cmd, ncmd, snap, lv, tea, pad, gen>>

----------------------------------------------------------------------------
(* TEA in CBC mode on files (src/ЛР4.py)                                    *)

\* hashlib.sha256(passphrase.encode("utf-8")).digest()[:16], for the
\* passphrases of the model (the bytes are those hashlib gives)
derive_tea_key_16(passphrase) ==
    CASE passphrase = "hunter2" ->
             <<245, 47, 189, 50, 178, 179, 184, 111,
               248, 142, 246, 196, 144, 98, 130, 133>>
      [] passphrase = "wrong" ->
             <<136, 16, 173, 88, 30, 89, 242, 188,
               57, 40, 178, 97, 112, 122, 113, 48>>
      [] passphrase = "" ->
             <<227, 176, 196, 66, 152, 252, 28, 20,
               154, 251, 244, 200, 153, 111, 185, 36>>

Passphrases == {"hunter2", "wrong"}

\* what os.urandom(BLOCK_SIZE) may return in the model
IVs == {[i \in 1..BLOCK_SIZE |-> 0], [i \in 1..BLOCK_SIZE |-> (53 * i + 200) % 256]}

\* b"".join(blocks)
RECURSIVE Join(_)
Join(blocks) == IF blocks = <<>> THEN <<>> ELSE Head(blocks) \o Join(Tail(blocks))

\* main, lines 156-157
StartEncrypt ==
    /\ First \/ Again
    /\ \E pw \in Passphrases :
           Launch([NoCmd EXCEPT !.name = "encrypt", !.inp = StageIn, !.out = StageOut,
                                !.pw = pw], "enc_call")

\* lines 84-85
EncCall ==
    /\ pc = "enc_call"
    /\ \E iv \in IVs :
           lv' = [lv EXCEPT !.key16 = derive_tea_key_16(cmd.pw), !.iv = iv]
    /\ pc' = "enc_mkdir"
    /\ UNCHANGED <<fs, dirs, cmd, err, ncmd, snap, hist, tea, pad, gen>>

\* line 87
EncEnsureParent ==
    /\ pc = "enc_mkdir"
    /\ dirs' = ensure_parent(cmd.out)
    /\ pc' = "enc_read"
    /\ UNCHANGED <<fs, cmd, err, ncmd, snap, lv, hist, tea, pad, gen>>

\* lines 88-89: plaintext = fin.read()
EncRead ==
    /\ pc = "enc_read"
    /\ IF ~fs[cmd.inp].exists
       THEN Fail(E_FILE_NOT_FOUND) /\ UNCHANGED lv
       ELSE /\ lv' = [lv EXCEPT !.data = fs[cmd.inp].bytes]
            /\ pc' = "enc_pad"
            /\ UNCHANGED <<err, hist>>
    /\ UNCHANGED <<fs, dirs, cmd, ncmd, snap, tea, pad, gen>>

\* lines 91-94
EncPad ==
    /\ pc = "enc_pad"
    /\ lv' = [lv EXCEPT !.padded = pkcs7_pad(lv.data, BLOCK_SIZE),
                        !.blocks = <<>>, !.prev = lv.iv, !.i = 0]
    /\ pc' = "enc_loop"
    /\ UNCHANGED <<fs, dirs, cmd, err, ncmd, snap, hist, tea, pad, gen>>

\* lines 95-100, one pass of the loop
Mut_EncBlock ==
    /\ pc = "enc_loop"
    /\ lv.i < Len(lv.padded)
    /\ LET block == SubSeq(lv.padded, lv.i + 1, lv.i + BLOCK_SIZE)
           x == xor_bytes(block, lv.iv)
           c == tea_encrypt_block(x, lv.key16)
       IN  lv' = [lv EXCEPT !.blocks = Append(lv.blocks, c), !.prev = c,
                            !.i = lv.i + BLOCK_SIZE]
    /\ UNCHANGED <<fs, dirs, pc, cmd, err, ncmd, snap, hist, tea, pad, gen>>

EncBlock ==
    /\ pc = "enc_loop"
    /\ lv.i < Len(lv.padded)
    /\ LET block == SubSeq(lv.padded, lv.i + 1, lv.i + BLOCK_SIZE)
           x == xor_bytes(block, lv.prev)
           c == tea_encrypt_block(x, lv.key16)
       IN  lv' = [lv EXCEPT !.blocks = Append(lv.blocks, c), !.prev = c,
                            !.i = lv.i + BLOCK_SIZE]
    /\ UNCHANGED <<fs, dirs, pc, cmd, err, ncmd, snap, hist, tea, pad, gen>>

\* lines 102-104
EncWrite ==
    /\ pc = "enc_loop"
    /\ lv.i >= Len(lv.padded)
    /\ fs' = [fs EXCEPT ![cmd.out] = File(lv.iv \o Join(lv.blocks))]
    /\ Finish(File(lv.iv \o Join(lv.blocks)))
    /\ UNCHANGED <<dirs, cmd, ncmd, snap, lv, tea, pad, gen>>

\* main, lines 160-161
StartDecrypt ==
    /\ First \/ Again
    /\ \E pw \in Passphrases :
           Launch([NoCmd EXCEPT !.name = "decrypt", !.inp = StageIn, !.out = StageOut,
                                !.pw = pw], "dec_call")

\* line 108
DecCall ==
    /\ pc = "dec_call"
    /\ lv' = [lv EXCEPT !.key16 = derive_tea_key_16(cmd.pw)]
    /\ pc' = "dec_read"
    /\ UNCHANGED <<fs, dirs, cmd, err, ncmd, snap, hist, tea, pad, gen>>

\* lines 110-111: data = fin.read()
DecRead ==
    /\ pc = "dec_read"
    /\ IF ~fs[cmd.inp].exists
       THEN Fail(E_FILE_NOT_FOUND) /\ UNCHANGED lv
       ELSE /\ lv' = [lv EXCEPT !.data = fs[cmd.inp].bytes]
            /\ pc' = "dec_check"
            /\ UNCHANGED <<err, hist>>
    /\ UNCHANGED <<fs, dirs, cmd, ncmd, snap, tea, pad, gen>>

\* lines 113-120
Mut_DecCheck ==
    /\ pc = "dec_check"
    /\ IF Len(lv.data) <= BLOCK_SIZE \/ Len(lv.data) % BLOCK_SIZE # 0
       THEN Fail(E_BAD_LENGTH) /\ UNCHANGED lv
       ELSE /\ lv' = [lv EXCEPT !.iv = SubSeq(lv.data, 1, BLOCK_SIZE),
                                !.ciphertext = SubSeq(lv.data, BLOCK_SIZE + 1, Len(lv.data)),
                                !.blocks = <<>>,
                                !.prev = SubSeq(lv.data, 1, BLOCK_SIZE),
                                !.i = 0]
            /\ pc' = "dec_loop"
            /\ UNCHANGED <<err, hist>>
    /\ UNCHANGED <<fs, dirs, cmd, ncmd, snap, tea, pad, gen>>

DecCheck ==
    /\ pc = "dec_check"
    /\ IF Len(lv.data) < BLOCK_SIZE \/ Len(lv.data) % BLOCK_SIZE # 0
       THEN Fail(E_BAD_LENGTH) /\ UNCHANGED lv
       ELSE /\ lv' = [lv EXCEPT !.iv = SubSeq(lv.data, 1, BLOCK_SIZE),
                                !.ciphertext = SubSeq(lv.data, BLOCK_SIZE + 1, Len(lv.data)),
                                !.blocks = <<>>,
                                !.prev = SubSeq(lv.data, 1, BLOCK_SIZE),
                                !.i = 0]
            /\ pc' = "dec_loop"
            /\ UNCHANGED <<err, hist>>
    /\ UNCHANGED <<fs, dirs, cmd, ncmd, snap, tea, pad, gen>>

\* lines 121-126, one pass of the loop
DecBlock ==
    /\ pc = "dec_loop"
    /\ lv.i < Len(lv.ciphertext)
    /\ LET c == SubSeq(lv.ciphertext, lv.i + 1, lv.i + BLOCK_SIZE)
           x == tea_decrypt_block(c, lv.key16)
           p == xor_bytes(x, lv.prev)
       IN  lv' = [lv EXCEPT !.blocks = Append(lv.blocks, p), !.prev = c,
                            !.i = lv.i + BLOCK_SIZE]
    /\ UNCHANGED <<fs, dirs, pc, cmd, err, ncmd, snap, hist, tea, pad, gen>>

\* lines 128-129
Mut_DecUnpad ==
    /\ pc = "dec_loop"
    /\ lv.i >= Len(lv.ciphertext)
    /\ LET r == pkcs7_unpad(Join(lv.blocks), BLOCK_SIZE)
       IN  IF r.ok
           THEN /\ lv' = [lv EXCEPT !.padded = Join(lv.blocks), !.plain = r.val]
                /\ pc' = "dec_mkdir"
                /\ UNCHANGED <<fs, err, hist>>
           ELSE /\ lv' = [lv EXCEPT !.padded = Join(lv.blocks)]
                /\ fs' = [fs EXCEPT ![cmd.out] = File(<<>>)]
                /\ Fail(r.err)
    /\ UNCHANGED <<dirs, cmd, ncmd, snap, tea, pad, gen>>

DecUnpad ==
    /\ pc = "dec_loop"
    /\ lv.i >= Len(lv.ciphertext)
    /\ LET r == pkcs7_unpad(Join(lv.blocks), BLOCK_SIZE)
       IN  IF r.ok
           THEN /\ lv' = [lv EXCEPT !.padded = Join(lv.blocks), !.plain = r.val]
                /\ pc' = "dec_mkdir"
                /\ UNCHANGED <<err, hist>>
           ELSE /\ lv' = [lv EXCEPT !.padded = Join(lv.blocks)]
                /\ Fail(r.err)
    /\ UNCHANGED <<fs, dirs, cmd, ncmd, snap, tea, pad, gen>>

\* line 131
DecEnsureParent ==
    /\ pc = "dec_mkdir"
    /\ dirs' = ensure_parent(cmd.out)
    /\ pc' = "dec_write"
    /\ UNCHANGED <<fs, cmd, err, ncmd, snap, lv, hist, tea, pad, gen>>

\* lines 132-133
DecWrite ==
    /\ pc = "dec_write"
    /\ fs' = [fs EXCEPT ![cmd.out] = File(lv.plain)]
    /\ Finish(File(lv.plain))
    /\ UNCHANGED <<dirs, cmd, ncmd, snap, lv, tea, pad, gen>>

----------------------------------------------------------------------------
(* The sessions: a command on the input file, then possibly a cipher on    *)
(* what it wrote                                                            *)

MaxPlain == 9

Junk == <<74, 85, 78, 75>>

\* the files and directories before the first command: the input, the key
\* file, and possibly older files where the outputs will go
InitFiles(d, k, older) ==
    /\ fs = [p \in Paths |->
                IF p = InPath THEN File(d)
                ELSE IF p = KeyPath THEN File(k)
                ELSE IF p \in {OutPath(1), OutPath(2)} /\ older THEN File(Junk)
                ELSE Absent]
    /\ dirs = {Root} \cup (IF older THEN {OutPath(1)[1], OutPath(2)[1]} ELSE {})
    /\ pc = "idle"
    /\ cmd = NoCmd
    /\ err = NoError
    /\ ncmd = 0
    /\ snap = [fs |-> fs, dirs |-> dirs]
    /\ lv = NoLocals
    /\ hist = <<>>
    /\ tea = NoTea
    /\ pad = NoPad
    /\ gen = NoGen

InitStream ==
    \E n \in 0..MaxLen, m \in 0..MaxLen, j \in 1..2, older \in BOOLEAN :
        InitFiles(SampleBytes(j, n), SampleBytes(3, m), older)

InitCbc ==
    \E n \in 0..MaxPlain, j \in 1..2, older \in BOOLEAN :
        InitFiles(IF j = 1 THEN SampleBytes(1, n) ELSE Repeat(BLOCK_SIZE, n),
                  SampleBytes(3, MaxPlain), older)

NextStream ==
    \/ StartVernam
    \/ XorSizes
    \/ XorEnsureParent
    \/ XorOpen
    \/ XorRead
    \/ XorWrite
    \/ StartRc4
    \/ Rc4Key
    \/ Rc4EnsureParent
    \/ Rc4Open
    \/ Rc4Read
    \/ Rc4Write
    \/ StartGenKey
    \/ StartGenKeyCall
    \/ GenKeyMain
    \/ GenKeyEnsureParent
    \/ GenKeyOpen
    \/ GenKeyUrandomWrite
    \/ GenKeyLcgWrite

NextCbc ==
    \/ StartEncrypt
    \/ EncCall
    \/ EncEnsureParent
    \/ EncRead
    \/ EncPad
    \/ EncBlock
    \/ EncWrite
    \/ StartDecrypt
    \/ DecCall
    \/ DecRead
    \/ DecCheck
    \/ DecBlock
    \/ DecUnpad
    \/ DecEnsureParent
    \/ DecWrite

\* the tools of ЛР3.py
Spec == InitStream /\ [][NextStream]_vars

\* the tool of ЛР4.py
SpecCbc == InitCbc /\ [][NextCbc]_vars

\* both
SpecAll == (InitStream \/ InitCbc) /\ [][NextStream \/ NextCbc]_vars

----------------------------------------------------------------------------
(* Properties of the sessions                                               *)

\* the command in hand left the files and the directories as they were
Untouched == fs = snap.fs /\ dirs = snap.dirs

\* C1: a file written by encrypt_file_cbc and then given to decrypt_file_cbc
\* with the same passphrase comes back byte for byte, whatever the IV, and
\* the decryption raises nothing; the file written is the IV and one block
\* more than the plaintext has whole blocks, and both loops count whole
\* blocks up to the end of their input
C1_CbcRoundTrip ==
    /\ (Len(hist) = 2 /\ hist[1].name = "encrypt" /\ hist[1].ok
           /\ hist[2].name = "decrypt" /\ hist[2].pw = hist[1].pw) =>
           /\ hist[2].ok
           /\ hist[2].output = hist[1].input
           /\ fs[OutPath(2)] = fs[InPath]
    /\ (cmd.name = "encrypt" /\ pc = "idle" /\ err = NoError) =>
           /\ Len(fs[cmd.out].bytes) =
                  BLOCK_SIZE * (2 + (Len(snap.fs[cmd.inp].bytes) \div BLOCK_SIZE))
           /\ SubSeq(fs[cmd.out].bytes, 1, BLOCK_SIZE) = lv.iv
    /\ pc = "enc_loop" =>
           (lv.i = BLOCK_SIZE * Len(lv.blocks) /\ lv.i <= Len(lv.padded))
    /\ pc = "dec_loop" =>
           (lv.i = BLOCK_SIZE * Len(lv.blocks) /\ lv.i <= Len(lv.ciphertext))

C1_Witness ==
    /\ Len(hist) = 2 /\ hist[1].name = "encrypt" /\ hist[1].ok
    /\ hist[2].name = "decrypt" /\ hist[2].pw = hist[1].pw /\ hist[2].ok
    /\ Len(hist[1].input.bytes) = BLOCK_SIZE
    /\ Len(hist[2].input.bytes) = 3 * BLOCK_SIZE
    /\ SubSeq(hist[2].input.bytes, 1, BLOCK_SIZE) # ZeroBytes(BLOCK_SIZE)
    /\ fs[OutPath(2)] = fs[InPath]

\* the key file of the vernam command in hand is shorter than its input
KeyShort ==
    /\ cmd.name = "vernam"
    /\ snap.fs[cmd.inp].exists /\ snap.fs[cmd.keyfile].exists
    /\ Len(snap.fs[cmd.keyfile].bytes) < Len(snap.fs[cmd.inp].bytes)

\* C3: with a key file shorter than the input, xor_files never gets past its
\* size check: it raises the key-too-short error with the files and the
\* directories as they were (nothing created, truncated or written), and it
\* raises that error only there, before anything is read
C3_VernamLengthGuard ==
    /\ KeyShort => (pc \in {"xor_sizes", "idle"} /\ Untouched)
    /\ (KeyShort /\ pc = "idle") => err = E_KEY_TOO_SHORT
    /\ err = E_KEY_TOO_SHORT => (KeyShort /\ Untouched /\ lv = NoLocals)

C3_Witness ==
    /\ KeyShort /\ pc = "idle" /\ err = E_KEY_TOO_SHORT
    /\ ncmd = 1
    /\ fs[cmd.out] = File(Junk)
    /\ NewKeyPath[1] \notin dirs

\* the length at which decrypt_file_cbc's input passes the format check
GoodLength(n) == n >= 8 /\ (n - 8) % 8 = 0

\* decrypt_file_cbc has ended on an input file that exists
Decrypted == cmd.name = "decrypt" /\ pc = "idle" /\ snap.fs[cmd.inp].exists

\* C6 as stated: the bad-length error exactly when the length is < 8 or
\* (length - 8) mod 8 # 0, before any block is decrypted, and any other
\* failure is the invalid-padding error
C6_OnlyInvalidPadding ==
    /\ Decrypted =>
           (err = E_BAD_LENGTH <=> ~GoodLength(Len(snap.fs[cmd.inp].bytes)))
    /\ (Decrypted /\ err = E_BAD_LENGTH) => (lv.blocks = <<>> /\ lv.i = 0)
    /\ (Decrypted /\ err \notin {NoError, E_BAD_LENGTH}) => err = E_INVALID_PADDING

\* C6, amended: the bad-length error exactly when the length is < 8 or
\* (length - 8) mod 8 # 0, before any block is decrypted; a file that passes
\* can then fail only in the final pkcs7_unpad, after all its blocks were
\* decrypted: with pkcs7_unpad's bad-data-length error when the file is
\* exactly 8 bytes (an IV and no ciphertext block), which always fails so,
\* and with the invalid-padding error otherwise
C6_DecryptLengthCheck ==
    /\ Decrypted =>
           (err = E_BAD_LENGTH <=> ~GoodLength(Len(snap.fs[cmd.inp].bytes)))
    /\ (Decrypted /\ err = E_BAD_LENGTH) => (lv.blocks = <<>> /\ lv.i = 0)
    /\ (Decrypted /\ err \notin {NoError, E_BAD_LENGTH}) =>
           /\ Len(lv.blocks) * BLOCK_SIZE = Len(snap.fs[cmd.inp].bytes) - BLOCK_SIZE
           /\ IF Len(snap.fs[cmd.inp].bytes) = BLOCK_SIZE
              THEN err = E_UNPAD_LENGTH
              ELSE err = E_INVALID_PADDING
    /\ (Decrypted /\ Len(snap.fs[cmd.inp].bytes) = BLOCK_SIZE) => err = E_UNPAD_LENGTH

C6_Witness ==
    /\ Decrypted
    /\ Len(snap.fs[cmd.inp].bytes) = BLOCK_SIZE
    /\ err = E_UNPAD_LENGTH
    /\ lv.ciphertext = <<>>

\* the same cipher was run twice, the second time on what the first wrote
Twice(name) ==
    /\ Len(hist) = 2
    /\ hist[1].name = name /\ hist[2].name = name
    /\ hist[1].ok /\ hist[2].ok

\* C7: rc4_crypt_file with a non-empty key, and xor_files with a key file at
\* least as long as the input, succeed and write as many bytes as they read;
\* run a second time with the same key on what they wrote, whatever the
\* chunk sizes of the two runs, they write the first input again
C7_Symmetry ==
    /\ \A k \in 1..Len(hist) :
           /\ (hist[k].name = "rc4" /\ hist[k].input.exists) =>
                  (hist[k].ok <=> hist[k].key # <<>>)
           /\ (hist[k].name = "vernam" /\ hist[k].input.exists
                   /\ hist[k].keyfile.exists) =>
                  (hist[k].ok <=>
                      Len(hist[k].keyfile.bytes) >= Len(hist[k].input.bytes))
           /\ (hist[k].name \in {"rc4", "vernam"} /\ hist[k].ok) =>
                  /\ hist[k].output.exists
                  /\ Len(hist[k].output.bytes) = Len(hist[k].input.bytes)
    /\ (Twice("rc4") /\ hist[1].key = hist[2].key) =>
           hist[2].output = hist[1].input
    /\ (Twice("vernam") /\ hist[1].keyfile = hist[2].keyfile) =>
           hist[2].output = hist[1].input

C7_Witness ==
    /\ Twice("rc4") /\ hist[1].key = hist[2].key
    /\ Len(hist[1].input.bytes) = MaxLen
    /\ hist[1].output # hist[1].input
    /\ hist[2].output = hist[1].input
    /\ pc = "idle" /\ cmd.chunk = 1

\* the first n bytes of the input XOR the first n bytes of the key file
XorWhole(n) ==
    [i \in 1..n |-> XorN(snap.fs[cmd.inp].bytes[i], snap.fs[cmd.keyfile].bytes[i])]

\* RC4 of the first n bytes of the input in one pass: the bytes and the
\* generator after them
Rc4Whole(n) ==
    Rc4Chunk(rc4_keystream(Utf8(cmd.key)), SubSeq(snap.fs[cmd.inp].bytes, 1, n))

\* C8: between two chunks, and at the end, the output of xor_files and of
\* rc4_crypt_file is what one pass over the bytes read so far gives (output
\* byte i = input byte i XOR key or keystream byte i), the key cursor stands
\* where the input cursor stands, and the RC4 generator (i, j, S) is the one
\* a single pass leaves: no chunk size, and no short last chunk, changes it
C8_ChunksDoNotMatter ==
    /\ (cmd.name = "vernam" /\ pc \in {"xor_read", "xor_write"}) =>
           /\ lv.fkey = lv.fin - (IF pc = "xor_write" THEN Len(lv.data) ELSE 0)
           /\ fs[cmd.out].bytes = XorWhole(lv.fkey)
    /\ (cmd.name = "vernam" /\ pc = "idle" /\ err = NoError) =>
           fs[cmd.out].bytes = XorWhole(Len(snap.fs[cmd.inp].bytes))
    /\ (cmd.name = "rc4" /\ pc = "rc4_read") =>
           /\ fs[cmd.out].bytes = Rc4Whole(lv.fin).out
           /\ lv.ks = Rc4Whole(lv.fin).g
    /\ (cmd.name = "rc4" /\ pc = "idle" /\ err = NoError) =>
           /\ lv.fin = Len(snap.fs[cmd.inp].bytes)
           /\ fs[cmd.out].bytes = Rc4Whole(lv.fin).out

C8_Witness ==
    /\ cmd.name = "vernam" /\ pc = "idle" /\ err = NoError
    /\ cmd.chunk = 2
    /\ Len(snap.fs[cmd.inp].bytes) = 3
    /\ Len(snap.fs[cmd.keyfile].bytes) = 3
    /\ fs[cmd.out].bytes = XorWhole(3)
    /\ fs[cmd.out].bytes # snap.fs[cmd.inp].bytes

\* the command in hand was given an invalid argument
InvalidArgument ==
    \/ cmd.name \in {"gen_key_urandom", "gen_key_lcg"} /\ cmd.size <= 0
    \/ cmd.name = "rc4" /\ cmd.key = <<>>

\* C9 as stated: key generation with a size <= 0, through the gen-key
\* command or through gen_key_urandom / gen_key_lcg themselves, and
\* rc4_crypt_file with an empty key, touch no file and no directory and end
\* with an invalid-argument error
C9_InvalidArgumentBeforeIO ==
    /\ InvalidArgument => Untouched
    /\ (InvalidArgument /\ pc = "idle") => err \in {E_SIZE, E_EMPTY_KEY}

\* the size of what the file-level function holds of its input
Held == Len(lv.data)

Decrypting == cmd.name = "decrypt" /\ pc # "off"

\* C12: whenever decrypt_file_cbc raises (no input file, bad length, or an
\* error of pkcs7_unpad, e.g. with a wrong passphrase) the files and the
\* directories are as they were when it was called: the output file is not
\* created, truncated or written, no directory is created. Nothing changes
\* before pkcs7_unpad has succeeded on the whole decrypted data (every block
\* of the file after the IV), and the only bytes ever written to the output
\* are the complete unpadded plaintext
C12_FailedDecryptLeavesOutput ==
    /\ (Decrypting /\ pc = "idle" /\ err # NoError) => Untouched
    /\ (Decrypting /\ pc \in {"dec_call", "dec_read", "dec_check", "dec_loop",
                               "dec_mkdir"}) => Untouched
    /\ (Decrypting /\ ~Untouched) =>
           /\ pc \in {"dec_write", "idle"}
           /\ err = NoError
           /\ Len(lv.padded) = Len(snap.fs[cmd.inp].bytes) - BLOCK_SIZE
           /\ pkcs7_unpad(lv.padded, BLOCK_SIZE) = Return(lv.plain)
    /\ Decrypting =>
           /\ fs[cmd.out] \in {snap.fs[cmd.out], File(lv.plain)}
           /\ \A p \in Paths \ {cmd.out} : fs[p] = snap.fs[p]
           /\ dirs \in {snap.dirs, snap.dirs \cup {cmd.out[1]}}

\* a decryption with the wrong passphrase raised the invalid-padding error
\* and the older file at its output path is as it was
C12_Witness ==
    /\ Decrypting /\ pc = "idle"
    /\ err = E_INVALID_PADDING
    /\ Len(hist) = 2 /\ hist[1].name = "encrypt" /\ hist[1].pw # cmd.pw
    /\ snap.fs[cmd.out] = File(Junk)
    /\ fs[cmd.out] = File(Junk)

----------------------------------------------------------------------------
(* One block through tea_encrypt_block and back through tea_decrypt_block,  *)
(* one loop pass per step                                                   *)

NumTeaSamples == 2

TeaBlocks ==
    {ZeroBytes(BLOCK_SIZE), OneBytes(BLOCK_SIZE)}
        \cup {SampleBytes(k, BLOCK_SIZE) : k \in 1..NumTeaSamples}
TeaKeys ==
    {ZeroBytes(2 * BLOCK_SIZE), OneBytes(2 * BLOCK_SIZE)}
        \cup {SampleBytes(k + 3, 2 * BLOCK_SIZE) : k \in 1..NumTeaSamples}

TeaEncCall ==
    /\ tea.pc = "enc_call"
    /\ tea' = [tea EXCEPT !.pc = "enc_loop", !.t = EncEntry(tea.block),
                          !.k = UnpackKey(tea.key), !.n = 0,
                          !.trace = <<EncEntry(tea.block)>>]
    /\ UNCHANGED <<fileVars, pad, gen>>

TeaEncRound ==
    /\ tea.pc = "enc_loop"
    /\ tea.n < ROUNDS
    /\ LET t == EncRound(tea.t, tea.k)
       IN  tea' = [tea EXCEPT !.t = t, !.n = tea.n + 1,
                              !.trace = Append(tea.trace, t)]
    /\ UNCHANGED <<fileVars, pad, gen>>

TeaEncReturn ==
    /\ tea.pc = "enc_loop"
    /\ tea.n = ROUNDS
    /\ tea' = [tea EXCEPT !.pc = "dec_call", !.ct = PackBlock(tea.t)]
    /\ UNCHANGED <<fileVars, pad, gen>>

TeaDecCall ==
    /\ tea.pc = "dec_call"
    /\ tea' = [tea EXCEPT !.pc = "dec_loop", !.t = DecEntry(tea.ct),
                          !.k = UnpackKey(tea.key), !.n = 0]
    /\ UNCHANGED <<fileVars, pad, gen>>

TeaDecRound ==
    /\ tea.pc = "dec_loop"
    /\ tea.n < ROUNDS
    /\ tea' = [tea EXCEPT !.t = DecRound(tea.t, tea.k), !.n = tea.n + 1]
    /\ UNCHANGED <<fileVars, pad, gen>>

TeaDecReturn ==
    /\ tea.pc = "dec_loop"
    /\ tea.n = ROUNDS
    /\ tea' = [tea EXCEPT !.pc = "done", !.pt = PackBlock(tea.t)]
    /\ UNCHANGED <<fileVars, pad, gen>>

InitTea ==
    /\ FilesOff
    /\ pad = NoPad
    /\ gen = NoGen
    /\ \E b \in TeaBlocks, k \in TeaKeys :
           tea = [pc |-> "enc_call", block |-> b, key |-> k, t |-> <<>>,
                  k |-> <<>>, n |-> 0, trace |-> <<>>, ct |-> <<>>, pt |-> <<>>]

NextTea ==
    \/ TeaEncCall
    \/ TeaEncRound
    \/ TeaEncReturn
    \/ TeaDecCall
    \/ TeaDecRound
    \/ TeaDecReturn

SpecTea == InitTea /\ [][NextTea]_vars

----------------------------------------------------------------------------
\* C2: a block encrypted and then decrypted with the same key is the block
\* again; the accumulator starts at 0 on encryption and at (DELTA * 32) mod
\* 2^32 on decryption, every value stays a 32-bit word, and after n passes of
\* the decryption loop v0, v1 and s are what they were after ROUNDS - n
\* passes of the encryption loop
C2_TeaRoundTrip ==
    /\ (tea.pc = "enc_loop" /\ tea.n = 0) => tea.t.s = <<0, 0>>
    /\ (tea.pc = "dec_loop" /\ tea.n = 0) =>
           tea.t.s = <<(DELTA[1] * 32 + (DELTA[2] * 32) \div Limb) % Limb,
                       (DELTA[2] * 32) % Limb>>
    /\ tea.pc \in {"enc_loop", "dec_loop"} =>
           \A w \in {tea.t.v0, tea.t.v1, tea.t.s} :
               w[1] \in 0..(Limb - 1) /\ w[2] \in 0..(Limb - 1)
    /\ tea.pc = "dec_loop" => tea.t = tea.trace[ROUNDS - tea.n + 1]
    /\ tea.pc = "done" => tea.pt = tea.block

C2_Witness ==
    /\ tea.pc = "done"
    /\ tea.ct # tea.block
    /\ tea.block # ZeroBytes(BLOCK_SIZE)
    /\ tea.key # ZeroBytes(2 * BLOCK_SIZE)

----------------------------------------------------------------------------
(* One byte string through pkcs7_pad and pkcs7_unpad, with at most one byte *)
(* of its last block changed in between; or straight into pkcs7_unpad       *)

MaxPadLen == 9
PadBytes == {1, 2}
FlipBytes == {0, 1, 2, 8, 9, 255}

RECURSIVE SeqsUpTo(_, _)
SeqsUpTo(S, n) ==
    IF n = 0 THEN {<<>>}
    ELSE LET shorter == SeqsUpTo(S, n - 1)
         IN  shorter \cup {Append(q, b) : q \in {r \in shorter : Len(r) = n - 1}, b \in S}

PadData == SeqsUpTo(PadBytes, MaxPadLen)

InitPad ==
    /\ FilesOff
    /\ tea = NoTea
    /\ gen = NoGen
    /\ \E d \in PadData, start \in {"pad_call", "unpad_call"} :
           pad = [pc |-> start, data |-> d, buf |-> d, padded |-> (start = "pad_call"),
                  flip |-> <<>>, res |-> Return(<<>>)]

\* padded = pkcs7_pad(data, BLOCK_SIZE)
PadCall ==
    /\ pad.pc = "pad_call"
    /\ pad' = [pad EXCEPT !.pc = "unpad_call", !.buf = pkcs7_pad(pad.data, BLOCK_SIZE)]
    /\ UNCHANGED <<fileVars, tea, gen>>

\* one byte of the last block takes another value
PadFlip ==
    /\ pad.pc = "unpad_call"
    /\ pad.flip = <<>>
    /\ \E i \in 1..Len(pad.buf), v \in FlipBytes :
           /\ i > Len(pad.buf) - BLOCK_SIZE
           /\ v # pad.buf[i]
           /\ pad' = [pad EXCEPT !.buf[i] = v, !.flip = <<i, v>>]
    /\ UNCHANGED <<fileVars, tea, gen>>

\* res = pkcs7_unpad(buf, BLOCK_SIZE)
UnpadCall ==
    /\ pad.pc = "unpad_call"
    /\ pad' = [pad EXCEPT !.pc = "done", !.res = pkcs7_unpad(pad.buf, BLOCK_SIZE)]
    /\ UNCHANGED <<fileVars, tea, gen>>

NextPad ==
    \/ PadCall
    \/ PadFlip
    \/ UnpadCall

SpecPad == InitPad /\ [][NextPad]_vars

PadOut == pad.padded /\ pad.pc \in {"unpad_call", "done"}

\* C4: the padded length is a positive multiple of 8, the pad is 1..8 bytes
\* each equal to the pad length, a whole block of 8s when the data is
\* block-aligned, and unpadding the untouched padded bytes gives the data
C4_PadRoundTrip ==
    /\ (PadOut /\ pad.flip = <<>>) =>
           /\ Len(pad.buf) > 0
           /\ Len(pad.buf) % 8 = 0
           /\ Len(pad.buf) - Len(pad.data) \in 1..8
           /\ SubSeq(pad.buf, 1, Len(pad.data)) = pad.data
           /\ \A i \in (Len(pad.data) + 1)..Len(pad.buf) :
                  pad.buf[i] = Len(pad.buf) - Len(pad.data)
           /\ Len(pad.data) % 8 = 0 =>
                  pad.buf = pad.data \o <<8, 8, 8, 8, 8, 8, 8, 8>>
    /\ (PadOut /\ pad.flip = <<>> /\ pad.pc = "done") =>
           pad.res = Return(pad.data)

C4_Witness ==
    /\ PadOut /\ pad.flip = <<>> /\ pad.pc = "done"
    /\ Len(pad.data) = 8
    /\ Len(pad.buf) = 16
    /\ pad.res.ok /\ pad.res.val = pad.data

\* a byte of the pad itself was changed to another value
TailFlipped ==
    /\ PadOut
    /\ pad.flip # <<>>
    /\ pad.flip[1] > Len(pad.data)

\* C5 as stated: after any change of a byte of the padded tail to a value
\* other than the pad length, pkcs7_unpad raises the invalid-padding error
C5_AnyTailFlipRejected ==
    (TailFlipped /\ pad.pc = "done") => pad.res = Raise(E_INVALID_PADDING)

\* the last v bytes of the buffer all equal v
TailIs(buf, v) ==
    /\ v \in 1..BLOCK_SIZE
    /\ v <= Len(buf)
    /\ \A i \in (Len(buf) - v + 1)..Len(buf) : buf[i] = v

\* C5, amended: a changed byte of the tail other than the last one is always
\* rejected; a changed last byte v is rejected unless v is in 1..8 and the
\* last v bytes then all equal v (v = 1 always is), and then v bytes are
\* stripped; and on every non-empty input of a length that is a multiple of
\* 8, pkcs7_unpad raises the invalid-padding error exactly when the last byte
\* is not in 1..8 or the last padLen bytes are not all padLen
C5_TailFlipRejection ==
    /\ (TailFlipped /\ pad.pc = "done" /\ pad.flip[1] < Len(pad.buf)) =>
           pad.res = Raise(E_INVALID_PADDING)
    /\ (TailFlipped /\ pad.pc = "done" /\ pad.flip[1] = Len(pad.buf)) =>
           IF TailIs(pad.buf, pad.flip[2])
           THEN pad.res = Return(DropLastN(pad.buf, pad.flip[2]))
           ELSE pad.res = Raise(E_INVALID_PADDING)
    /\ (TailFlipped /\ pad.pc = "done" /\ pad.flip = <<Len(pad.buf), 1>>) =>
           pad.res.ok
    /\ (pad.pc = "done" /\ pad.buf # <<>> /\ Len(pad.buf) % 8 = 0) =>
           IF TailIs(pad.buf, pad.buf[Len(pad.buf)])
           THEN pad.res = Return(DropLastN(pad.buf, pad.buf[Len(pad.buf)]))
           ELSE pad.res = Raise(E_INVALID_PADDING)

\* a changed pad byte before the last one was rejected
C5_Witness ==
    /\ TailFlipped /\ pad.pc = "done"
    /\ pad.flip[1] < Len(pad.buf)
    /\ pad.flip[2] \in 1..8
    /\ pad.res = Raise(E_INVALID_PADDING)

----------------------------------------------------------------------------
(* One rc4_keystream generator (src/ЛР3.py lines 70-90), one loop pass per  *)
(* step: the 256 passes of the KSA, then the PRGA, one byte per next()      *)

MaxKeystream == 260

E_ZERO_DIVISION == "integer modulo by zero"   \* ЛР3.py line 79, empty key

\* the key_bytes of the walk: the UTF-8 bytes of the keys of the sessions
\* (the empty key included) and two keys of extreme bytes
KeyBytes == {Utf8(k) : k \in Rc4Keys} \cup {<<0>>, <<255, 255>>}

InitRc4 ==
    /\ FilesOff
    /\ tea = NoTea
    /\ pad = NoPad
    /\ \E k \in KeyBytes :
           gen = [pc |-> "call", key |-> k, st |-> <<>>, i |-> 0, g |-> <<>>,
                  n |-> 0, out |-> <<>>, seen |-> <<>>, err |-> NoError]

\* lines 75-77
KsaEntry ==
    /\ gen.pc = "call"
    /\ gen' = [gen EXCEPT !.pc = "ksa_loop", !.i = 0,
                          !.st = [S |-> [x \in 0..255 |-> x], j |-> 0]]
    /\ UNCHANGED <<fileVars, tea, pad>>

\* lines 78-80, one pass; i % key_len raises when the key is empty
KsaIter ==
    /\ gen.pc = "ksa_loop"
    /\ gen.i < 256
    /\ IF gen.key = <<>>
       THEN gen' = [gen EXCEPT !.pc = "raised", !.err = E_ZERO_DIVISION]
       ELSE gen' = [gen EXCEPT !.st = KsaStep(gen.st, gen.key, gen.i),
                               !.i = gen.i + 1,
                               !.seen = Append(gen.seen, gen.st.S[gen.i])]
    /\ UNCHANGED <<fileVars, tea, pad>>

\* lines 83-84: the loop is over, i and j are set to 0
PrgaEntry ==
    /\ gen.pc = "ksa_loop"
    /\ gen.i = 256
    /\ gen' = [gen EXCEPT !.pc = "prga", !.seen = <<>>,
                          !.g = [started |-> TRUE, key |-> gen.key,
                                 S |-> gen.st.S, i |-> 0, j |-> 0]]
    /\ UNCHANGED <<fileVars, tea, pad>>

\* lines 85-90, one pass: next(ks) runs the loop up to the yield
PrgaStep ==
    /\ gen.pc = "prga"
    /\ gen.n < MaxKeystream
    /\ LET r == Prga(gen.g)
       IN  gen' = [gen EXCEPT !.g = r.g, !.n = gen.n + 1,
                              !.out = Append(gen.out, r.K),
                              !.seen = Append(gen.seen, gen.g.S[r.g.i])]
    /\ UNCHANGED <<fileVars, tea, pad>>

NextRc4 ==
    \/ KsaEntry
    \/ KsaIter
    \/ PrgaEntry
    \/ PrgaStep

SpecRc4 == InitRc4 /\ [][NextRc4]_vars

\* S is a permutation of 0..255: 256 slots, each value exactly once
IsPermutation(S) ==
    /\ DOMAIN S = 0..255
    /\ \A v \in 0..255 : Cardinality({x \in 0..255 : S[x] = v}) = 1

\* f[lo] + ... + f[hi]
RECURSIVE SumRange(_, _, _)
SumRange(f, lo, hi) ==
    IF hi < lo THEN 0
    ELSE IF hi = lo THEN f[lo]
    ELSE LET mid == (lo + hi) \div 2
         IN  SumRange(f, lo, mid) + SumRange(f, mid + 1, hi)

\* the key bytes the first n passes of the KSA added to j
KeySum(key_bytes, n) ==
    SumRange([k \in 0..255 |-> key_bytes[(k % Len(key_bytes)) + 1]], 0, n - 1)

\* n zero bytes through the generator of the sessions give the keystream
KeystreamOf(key_bytes, n) ==
    Rc4Chunk(rc4_keystream(key_bytes), [x \in 1..n |-> 0]).out

\* C11: for every non-empty key, after every pass of the KSA and after every
\* step of the PRGA, S is a permutation of 0..255 and i, j are in 0..255;
\* the KSA's j starts at 0 and carries over its 256 passes (it is the sum,
\* mod 256, of every S[i] and key byte added so far); the PRGA starts from
\* i = 0, j = 0 on the S the KSA left, steps i by one and adds S[i] to j, and
\* emits S[(S[i] + S[j]) mod 256] of the S after the swap
C11_Rc4Permutation ==
    /\ (gen.pc = "ksa_loop" /\ gen.key # <<>>) =>
           /\ IsPermutation(gen.st.S)
           /\ gen.i \in 0..256 /\ gen.st.j \in 0..255
           /\ Len(gen.seen) = gen.i
           /\ gen.st.j = (SumRange(gen.seen, 1, gen.i)
                              + KeySum(gen.key, gen.i)) % 256
           /\ gen.i = 0 => gen.st = [S |-> [x \in 0..255 |-> x], j |-> 0]
    /\ gen.pc = "prga" =>
           /\ gen.key # <<>>
           /\ IsPermutation(gen.g.S)
           /\ gen.g.i \in 0..255 /\ gen.g.j \in 0..255
           /\ gen.g.i = gen.n % 256
           /\ gen.g.j = SumRange(gen.seen, 1, gen.n) % 256
           /\ Len(gen.out) = gen.n
           /\ gen.n = 0 =>
                  /\ gen.g.i = 0 /\ gen.g.j = 0
                  /\ gen.g = Ksa(gen.key)
           /\ gen.n > 0 =>
                  gen.out[gen.n] =
                      gen.g.S[(gen.g.S[gen.g.i] + gen.g.S[gen.g.j]) % 256]
           /\ gen.n = 3 => gen.out = KeystreamOf(gen.key, 3)

\* the generator of the key "Key" gave more than 256 bytes (i wrapped), the
\* first six being those of the code
C11_Witness ==
    /\ gen.pc = "prga"
    /\ gen.key = <<75, 101, 121>>
    /\ gen.n > 256
    /\ SubSeq(gen.out, 1, 6) = <<235, 159, 119, 129, 183, 52>>

====
